---- MODULE Spec2Model ----
(* A model of the VideoMergerPro merge engine.                              *)
(*                                                                          *)
(* PlanSpec models the Batch Planner, RobustVideoMerger.calculate_batches   *)
(* and calculate_batches_by_count (src/dev/video_merger_robust.py), as one   *)
(* call of the planner stepped through its loop: one action per entry       *)
(* branch, one per loop iteration, one for the return.                      *)
(*                                                                          *)
(* MergeSpec models one call of RobustVideoMerger.merge_videos, the         *)
(* Pipeline Orchestrator: fast copy, tool check, block merges, final merge, *)
(* fallback decision, Fallback Engine and the cleanup of the finally        *)
(* clause, every external invocation succeeding or failing.                 *)
(*                                                                          *)
(* JobSpec models one execution of VideoMergerWorker.run                    *)
(* (src/dev/worker_thread.py), the Batch Coordinator, which plans, calls    *)
(* merge_videos once per batch and emits the signals, interleaved with      *)
(* cancel() called from another thread.                                     *)
(*                                                                          *)
(* ProgressSpec applies the worker's progress_callback to every index,      *)
(* batch count and sub-progress.                                            *)
(*                                                                          *)
(* Durations and limits are seconds, modelled as naturals (the code holds   *)
(* them as floats; every comparison the planner makes is between a sum of   *)
(* durations and a limit, which naturals reproduce exactly).                *)
EXTENDS Integers, Sequences, FiniteSets, TLC

(* ------------------------------ bounds --------------------------------- *)
\* longest file list the generic inputs contain
MaxFiles == 4
\* longest duration of a file of the generic inputs
MaxDur == 2

Durations == 0..MaxDur

VARIABLES
    video_files,               \* the ordered input list (paths)
    max_duration_sec,          \* 0 = unbounded
    max_clip_count,            \* 0 = unbounded
    standalone_threshold_sec,  \* 0 = disabled
    cached_durations,          \* [supplied |-> BOOLEAN, map |-> path -> duration]
    video_info,                \* path -> what get_video_info does for it
    pc,                        \* position of the planner call
    idx,                       \* 1-based position of the file the loop handles next
    batches,                   \* closed batches; the returned plan once pc = "done"
    current_batch,             \* the open batch
    current_duration,          \* accumulated duration of the open batch
    probe_calls,               \* paths get_video_info was called with, in order
    lookup_calls,              \* paths cached_durations.get was called with, in order
    handled,                   \* per handled file: how the loop body left (history)
    first_plan                 \* the plan an earlier call with the same arguments returned

planVars == <<video_files, max_duration_sec, max_clip_count, standalone_threshold_sec,
              cached_durations, video_info, pc, idx, batches, current_batch,
              current_duration, probe_calls, lookup_calls, handled, first_plan>>

VARIABLES
    performance_level,   \* RobustVideoMerger.performance_level (0, 1 or 2)
    mv_files,            \* merge_videos: the batch it was called with
    mv_output,           \* merge_videos: output_path
    mv_pc,               \* merge_videos: position of the call
    temp_files,          \* merge_videos: local temp_files (block numbers name them)
    fs_temps,            \* the temp block files that exist on the filesystem
    fs_outputs,          \* the output paths that exist on the filesystem
    primary_error,       \* merge_videos: e, the error the primary pipeline raised
    mv_result,           \* merge_videos: how the call ended
    mv_error,            \* merge_videos: the error raised to the caller
    fallback_calls,      \* calls of _merge_with_moviepy made by this call
    invocations,         \* external invocations made by this call, in order
    progress,            \* what progress_callback was last called with and emitted
    mp_clips             \* _merge_with_moviepy: local clips, the clips opened and closed

mergeVars == <<performance_level, mv_files, mv_output, mv_pc, temp_files, fs_temps,
               fs_outputs, primary_error, mv_result, mv_error, fallback_calls,
               invocations, progress, mp_clips>>

VARIABLES
    files_missing,       \* the input paths for which os.path.exists is false
    output_path,         \* VideoMergerWorker.output_path
    w_pc,                \* run: position of the worker
    index,               \* run: 0-based index of the batch of the loop
    total_batches,       \* run: len(batches)
    generated_files,     \* run: local generated_files
    is_cancelled,        \* VideoMergerWorker._is_cancelled
    merge_completed,     \* number of merge_completed signals emitted
    merge_failed,        \* number of merge_failed signals emitted
    merge_calls,         \* indexes of the batches merge_videos was called for, in order
    calls_after_cancel,  \* merge_videos calls started with the flag already set
    output_names,        \* the destination names given to the merge_videos calls, in order
    auto_naming,         \* VideoMergerWorker.auto_naming
    comp_title           \* VideoMergerWorker.comp_title (a sequence of characters)

jobVars == <<auto_naming, comp_title, files_missing, output_path, w_pc, index, total_batches, generated_files,
             is_cancelled, merge_completed, merge_failed, merge_calls,
             calls_after_cancel, output_names>>

VARIABLES
    ui,                  \* MainWindow: the split settings (check boxes and spin boxes)
    preview              \* MainWindow: what update_split_preview announced last

windowVars == <<ui, preview>>

VARIABLES
    oracle               \* one call of get_video_info: its environment and its course

oracleVars == <<oracle>>

vars == <<planVars, mergeVars, jobVars, windowVars, oracleVars>>

(* ------------------------------ helpers -------------------------------- *)
Min(a, b) == IF a <= b THEN a ELSE b

RECURSIVE Flatten(_)
\* the concatenation of a sequence of sequences, in order
Flatten(ss) == IF ss = <<>> THEN <<>> ELSE Head(ss) \o Flatten(Tail(ss))

\* all sequences over S of length 0..n
SeqsUpTo(S, n) == UNION {[1..k -> S] : k \in 0..n}

Range(s) == {s[k] : k \in DOMAIN s}

(* --------------------------- the duration oracle ------------------------ *)
\* dict.get(file, 0) on the supplied lookup
CachedGet(file) ==
    IF file \in DOMAIN cached_durations.map THEN cached_durations.map[file] ELSE 0

(* ------------------------------ the planner ----------------------------- *)
\* line 76: the count-only fast path is taken
FastPathTaken == max_clip_count > 0 /\ standalone_threshold_sec <= 0

\* mutant: each slice runs one file too far (video_files[i : i + k + 1])
calculate_batches_by_count_SliceTooLong(files, k) ==
    IF files = <<>> THEN <<>>
    ELSE IF k <= 0 THEN <<files>>
    ELSE [j \in 1..((Len(files) + k - 1) \div k) |->
             SubSeq(files, (j - 1) * k + 1, Min(j * k + 1, Len(files)))]

\* calculate_batches_by_count: slices video_files[i : i + max_clip_count]
calculate_batches_by_count(files, k) ==
    IF files = <<>> THEN <<>>
    ELSE IF k <= 0 THEN <<files>>
    ELSE [j \in 1..((Len(files) + k - 1) \div k) |->
             SubSeq(files, (j - 1) * k + 1, Min(j * k, Len(files)))]

\* mutant: the threshold itself does not isolate (> for >=)
is_standalone_Strict(duration) ==
    standalone_threshold_sec > 0 /\ duration > standalone_threshold_sec

\* line 94
is_standalone(duration) ==
    standalone_threshold_sec > 0 /\ duration >= standalone_threshold_sec

\* line 107: the count rule closes the open batch
CountRuleApplies(cb) == max_clip_count > 0 /\ Len(cb) >= max_clip_count

\* mutant: a sum equal to the limit splits (>= for >)
DurationRuleApplies_AtLimit(cb, cd, duration) ==
    max_duration_sec > 0 /\ cb # <<>> /\ cd + duration >= max_duration_sec

\* mutant: the rule is not switched off by max_duration_sec = 0
DurationRuleApplies_NoSwitch(cb, cd, duration) ==
    cb # <<>> /\ cd + duration > max_duration_sec

\* line 111: the duration rule closes the open batch
DurationRuleApplies(cb, cd, duration) ==
    max_duration_sec > 0 /\ cb # <<>> /\ cd + duration > max_duration_sec

\* mutant: the except branch swallows the error and the file with it
PlaceOnError_DropsFile(st, file) ==
    [st EXCEPT !.how = "error"]

\* lines 119-121: the except branch, taken when the duration fetch raised
PlaceOnError(st, file) ==
    [st EXCEPT !.current_batch = Append(st.current_batch, file), !.how = "error"]

\* lines 93-117: the body of the loop for a file whose duration was obtained
PlaceFile(st, file, duration) ==
    IF is_standalone(duration) THEN
        [batches |-> (IF st.current_batch # <<>>
                      THEN Append(st.batches, st.current_batch)
                      ELSE st.batches) \o << <<file>> >>,
         current_batch |-> <<>>,
         current_duration |-> 0,
         how |-> "standalone"]
    ELSE IF CountRuleApplies(st.current_batch) THEN
        [batches |-> Append(st.batches, st.current_batch),
         current_batch |-> <<file>>,
         current_duration |-> duration,
         how |-> "count"]
    ELSE IF DurationRuleApplies(st.current_batch, st.current_duration, duration) THEN
        [batches |-> Append(st.batches, st.current_batch),
         current_batch |-> <<file>>,
         current_duration |-> duration,
         how |-> "duration"]
    ELSE
        [batches |-> st.batches,
         current_batch |-> Append(st.current_batch, file),
         current_duration |-> st.current_duration + duration,
         how |-> "append"]

\* mutant: a file missing from the supplied lookup is probed
FetchDuration_ProbesOnMiss(file) ==
    IF cached_durations.supplied /\ file \in DOMAIN cached_durations.map
    THEN [raised |-> FALSE, duration |-> CachedGet(file),
          probed |-> FALSE, looked |-> TRUE]
    ELSE [raised |-> ~video_info[file].ok, duration |-> video_info[file].duration,
          probed |-> TRUE, looked |-> cached_durations.supplied]

\* lines 84-91: the duration of a file, from the lookup when one is supplied
\* (dict.get, default 0), from get_video_info otherwise (which may raise)
FetchDuration(file) ==
    IF cached_durations.supplied
    THEN [raised |-> FALSE, duration |-> CachedGet(file),
          probed |-> FALSE, looked |-> TRUE]
    ELSE [raised |-> ~video_info[file].ok, duration |-> video_info[file].duration,
          probed |-> TRUE, looked |-> FALSE]

\* lines 83-121: one iteration of the loop
LoopBody(st, file, got) ==
    IF got.raised THEN PlaceOnError(st, file) ELSE PlaceFile(st, file, got.duration)

\* mutant: the open batch is closed at the end even when it is empty
CloseLast_Unconditional(st) == Append(st.batches, st.current_batch)

\* lines 123-127: the open batch is closed at the end, if there is one
CloseLast(st) ==
    IF st.current_batch # <<>> THEN Append(st.batches, st.current_batch) ELSE st.batches

(* ------------------------------- inputs -------------------------------- *)
\* the duration of every file of a list whose duration can be obtained
DurationMaps(files, D) == UNION {[K -> D] : K \in SUBSET Range(files)}

\* the lists of the generic inputs: n distinct paths, and every list over two
\* paths (the same path may be listed more than once)
RepeatPaths == {1, 2}
InputLists == {[k \in 1..n |-> k] : n \in 0..MaxFiles} \cup SeqsUpTo(RepeatPaths, MaxFiles)

MaxDurationChoices == {0, MaxDur, MaxDur + 1}
MaxClipChoices == 0..(MaxFiles - 1)
StandaloneChoices == {0, MaxDur}

PlanInput(f, d, s, md, mc, th) ==
    [files |-> f, known |-> d, supplied |-> s,
     max_duration_sec |-> md, max_clip_count |-> mc, standalone_threshold_sec |-> th]

\* the scenarios of the specification, with their own values
ScenarioDuration ==
    PlanInput(<<1, 2, 3, 4>>, <<300, 200, 500, 100>>, TRUE, 600, 0, 0)
ScenarioStandalone ==
    PlanInput(<<1, 2, 3>>, <<30, 90, 20>>, TRUE, 0, 0, 60)
ScenarioCount ==
    PlanInput(<<1, 2, 3, 4, 5>>, <<>>, TRUE, 0, 2, 0)

ScenarioInputs ==
    {[sc EXCEPT !.supplied = s] :
        sc \in {ScenarioDuration, ScenarioStandalone, ScenarioCount}, s \in BOOLEAN}

(* ------------------------------- actions ------------------------------- *)
\* no error: the value of e and of the raised error while none was raised
NoError == [kind |-> "none", primary |-> "none", internal |-> "none"]

\* progress_callback was not called yet and nothing was emitted on progress_updated
NoProgress == [sub |-> -1, last |-> -1, decreased |-> FALSE]

\* no earlier call of calculate_batches
NoPlan == [returned |-> FALSE, plan |-> <<>>]

\* _merge_with_moviepy before it opens a clip: the list clips is empty (line
\* 351), no clip was opened and none closed (clips are named by the position
\* of their file in the batch)
NoClips == [clips |-> <<>>, opened |-> {}, closed |-> {}]

\* the split settings of the window as constructed (main.py lines 249-250 and
\* 302-303: "Enable clipping" and "Auto-Standalone" checked), no file listed
\* and nothing announced
WindowIdle ==
    /\ ui = [smart_split_cb |-> TRUE, split_duration_btn |-> TRUE,
             duration_spin |-> 0, count_spin |-> 0, standalone_cb |-> TRUE,
             video_durations |-> <<>>]
    /\ preview = [shown |-> FALSE, parts |-> <<>>]

\* no call of get_video_info
OracleIdle ==
    oracle = [path_exists |-> TRUE, ffprobe_exists |-> TRUE, probe |-> "ok",
              parse |-> "ok", library |-> "ok", pc |-> "idle",
              attempts |-> <<>>, error |-> "none", outcome |-> "none"]

\* the engine as constructed (lines 33-36 of video_merger_robust.py) and no
\* call of merge_videos
MergeIdle ==
    /\ performance_level = 0
    /\ mv_files = <<>>
    /\ mv_output = 0
    /\ mv_pc = "idle"
    /\ temp_files = <<>>
    /\ fs_temps = {}
    /\ fs_outputs = {}
    /\ primary_error = NoError
    /\ mv_result = "none"
    /\ mv_error = NoError
    /\ fallback_calls = 0
    /\ invocations = <<>>
    /\ progress = NoProgress
    /\ mp_clips = NoClips

\* no worker
JobIdle ==
    /\ auto_naming = TRUE
    /\ comp_title = <<>>
    /\ files_missing = {}
    /\ output_path = 0
    /\ w_pc = "idle"
    /\ index = 0
    /\ total_batches = 1
    /\ generated_files = <<>>
    /\ is_cancelled = FALSE
    /\ merge_completed = 0
    /\ merge_failed = 0
    /\ merge_calls = <<>>
    /\ calls_after_cancel = 0
    /\ output_names = <<>>

\* the state at the call of calculate_batches with the input in
InitWith(in) ==
    /\ video_files = in.files
    /\ max_duration_sec = in.max_duration_sec
    /\ max_clip_count = in.max_clip_count
    /\ standalone_threshold_sec = in.standalone_threshold_sec
    /\ cached_durations =
           [supplied |-> in.supplied,
            map |-> IF in.supplied THEN in.known ELSE <<>>]
    /\ video_info =
           [p \in Range(in.files) |->
               IF p \in DOMAIN in.known
               THEN [ok |-> TRUE, duration |-> in.known[p]]
               ELSE [ok |-> FALSE, duration |-> 0]]
    /\ pc = "call"
    /\ idx = 0
    /\ batches = <<>>
    /\ current_batch = <<>>
    /\ current_duration = 0
    /\ probe_calls = <<>>
    /\ lookup_calls = <<>>
    /\ handled = <<>>
    /\ first_plan = NoPlan

\* every input list, every choice of the files whose duration
\* can be obtained and of their durations, with and without a lookup, under
\* every configuration; and the scenarios
PlanInit ==
    /\ \/ \E f \in InputLists :
              \E d \in DurationMaps(f, Durations), s \in BOOLEAN,
                 md \in MaxDurationChoices, mc \in MaxClipChoices,
                 th \in StandaloneChoices :
                     InitWith(PlanInput(f, d, s, md, mc, th))
       \/ \E sc \in ScenarioInputs : InitWith(sc)
    /\ MergeIdle
    /\ JobIdle
    /\ WindowIdle
    /\ OracleIdle

inputVars == <<video_files, max_duration_sec, max_clip_count,
               standalone_threshold_sec, cached_durations, video_info>>

\* lines 73-74: an empty list gives an empty plan
ReturnEmpty ==
    /\ pc = "call"
    /\ video_files = <<>>
    /\ batches' = <<>>
    /\ pc' = "done"
    /\ UNCHANGED <<inputVars, first_plan, idx, current_batch, current_duration,
                   probe_calls, lookup_calls, handled>>
    /\ UNCHANGED <<mergeVars, jobVars, windowVars, oracleVars>>

\* lines 76-77: the count-only fast path
ReturnByCount ==
    /\ pc = "call"
    /\ video_files # <<>>
    /\ FastPathTaken
    /\ batches' = calculate_batches_by_count(video_files, max_clip_count)
    /\ pc' = "done"
    /\ UNCHANGED <<inputVars, first_plan, idx, current_batch, current_duration,
                   probe_calls, lookup_calls, handled>>
    /\ UNCHANGED <<mergeVars, jobVars, windowVars, oracleVars>>

\* mutant: the list of batches is kept from one call to the next
FreshBatches_Leftover == batches

\* line 79: batches is a new empty list in every call
FreshBatches == <<>>

\* lines 79-81: the general path starts with no batch and an empty open batch
EnterLoop ==
    /\ pc = "call"
    /\ video_files # <<>>
    /\ ~FastPathTaken
    /\ batches' = FreshBatches
    /\ current_batch' = <<>>
    /\ current_duration' = 0
    /\ idx' = 1
    /\ pc' = "loop"
    /\ UNCHANGED <<inputVars, first_plan, probe_calls, lookup_calls, handled>>
    /\ UNCHANGED <<mergeVars, jobVars, windowVars, oracleVars>>

\* lines 83-121: the loop handles the next file
LoopStep ==
    /\ pc = "loop"
    /\ idx <= Len(video_files)
    /\ LET file == video_files[idx]
           got == FetchDuration(file)
           st == LoopBody([batches |-> batches, current_batch |-> current_batch,
                           current_duration |-> current_duration, how |-> "none"],
                          file, got)
       IN /\ batches' = st.batches
          /\ current_batch' = st.current_batch
          /\ current_duration' = st.current_duration
          /\ handled' = Append(handled, st.how)
          /\ probe_calls' = IF got.probed THEN Append(probe_calls, file) ELSE probe_calls
          /\ lookup_calls' = IF got.looked THEN Append(lookup_calls, file) ELSE lookup_calls
    /\ idx' = idx + 1
    /\ UNCHANGED <<inputVars, first_plan, pc>>
    /\ UNCHANGED <<mergeVars, jobVars, windowVars, oracleVars>>

\* lines 123-127: the loop is over; the open batch is closed and the plan returned
ReturnPlan ==
    /\ pc = "loop"
    /\ idx > Len(video_files)
    /\ batches' = CloseLast([batches |-> batches, current_batch |-> current_batch,
                             current_duration |-> current_duration, how |-> "none"])
    /\ pc' = "done"
    /\ UNCHANGED <<inputVars, first_plan, idx, current_batch, current_duration,
                   probe_calls, lookup_calls, handled>>
    /\ UNCHANGED <<mergeVars, jobVars, windowVars, oracleVars>>

\* one call of calculate_batches
PlanNext == ReturnEmpty \/ ReturnByCount \/ EnterLoop \/ LoopStep \/ ReturnPlan

PlanSpec == PlanInit /\ [][PlanNext]_vars

\* lines 57-58: calculate_batches is called a second time with the arguments
\* of the first call (the plan the first call returned is kept by its caller;
\* the records of the lookups and probes start again)
CallAgain ==
    /\ pc = "done"
    /\ ~first_plan.returned
    /\ first_plan' = [returned |-> TRUE, plan |-> batches]
    /\ pc' = "call"
    /\ idx' = 0
    /\ probe_calls' = <<>>
    /\ lookup_calls' = <<>>
    /\ handled' = <<>>
    /\ UNCHANGED <<inputVars, batches, current_batch, current_duration>>
    /\ UNCHANGED <<mergeVars, jobVars, windowVars, oracleVars>>

\* two calls of calculate_batches, one after the other, on the same arguments
PlanTwiceNext == PlanNext \/ CallAgain

PlanTwiceSpec == PlanInit /\ [][PlanTwiceNext]_vars

(* ------------------------ properties of the planner --------------------- *)
\* the duration the planner works with for a path: the lookup's (0 when the
\* path is missing from it) when a lookup is supplied, the probe's otherwise
\* (0 stands for the duration of a file whose probe raises)
PlannerDuration(p) ==
    IF cached_durations.supplied THEN CachedGet(p) ELSE video_info[p].duration

\* the planner could not obtain the duration of the path: it is missing from
\* the supplied lookup, or no lookup is supplied and its probe raises
DurationUnknown(p) ==
    IF cached_durations.supplied
    THEN p \notin DOMAIN cached_durations.map
    ELSE ~video_info[p].ok

RECURSIVE SumDurations(_)
\* the total planner duration of the members of a batch
SumDurations(b) ==
    IF b = <<>> THEN 0 ELSE PlannerDuration(Head(b)) + SumDurations(Tail(b))

\* the call was made with the files, durations and limits of the scenario
IsScenario(sc) ==
    /\ video_files = sc.files
    /\ max_duration_sec = sc.max_duration_sec
    /\ max_clip_count = sc.max_clip_count
    /\ standalone_threshold_sec = sc.standalone_threshold_sec
    /\ \A p \in Range(sc.files) :
          video_info[p] = IF p \in DOMAIN sc.known
                          THEN [ok |-> TRUE, duration |-> sc.known[p]]
                          ELSE [ok |-> FALSE, duration |-> 0]

Returned == pc = "done"

\* C1. Partition law: for every non-empty file list and every configuration,
\* with or without a lookup and with files whose probe fails, the batches of
\* the returned plan concatenated in order are the input list exactly.
C1_PartitionLaw ==
    (Returned /\ video_files # <<>>) => Flatten(batches) = video_files

\* C1 witness: a plan of several batches returned for a list that repeats a
\* path and holds a file whose probe raised.
C1_Witness ==
    /\ Returned
    /\ Len(batches) >= 2
    /\ Cardinality(Range(video_files)) < Len(video_files)
    /\ \E k \in DOMAIN handled : handled[k] = "error"
    /\ Flatten(batches) = video_files

\* C2. Standalone isolation: with a positive threshold, every file whose
\* duration is at least the threshold is alone in its batch, whatever the count
\* and duration limits and its neighbours are; durations 30, 90, 20 with
\* threshold 60 give [[A],[B],[C]].
C2_StandaloneIsolation ==
    /\ (Returned /\ standalone_threshold_sec > 0) =>
          \A b \in DOMAIN batches : \A k \in DOMAIN batches[b] :
              (/\ ~DurationUnknown(batches[b][k])
               /\ PlannerDuration(batches[b][k]) >= standalone_threshold_sec)
                  => Len(batches[b]) = 1
    /\ (Returned /\ IsScenario(ScenarioStandalone)) =>
          batches = << <<1>>, <<2>>, <<3>> >>

\* C2 witness: a file exactly at the threshold sits alone between two shorter
\* files although neither limit is set.
C2_Witness ==
    /\ Returned
    /\ standalone_threshold_sec > 0
    /\ max_duration_sec = 0 /\ max_clip_count = 0
    /\ Len(video_files) = 3 /\ Len(batches) = 3
    /\ ~DurationUnknown(video_files[2])
    /\ PlannerDuration(video_files[2]) = standalone_threshold_sec
    /\ PlannerDuration(video_files[1]) < standalone_threshold_sec
    /\ PlannerDuration(video_files[3]) < standalone_threshold_sec
    /\ batches[2] = <<video_files[2]>>

\* C3. Duration bound: with max_duration_sec > 0, whatever max_clip_count and
\* standalone_threshold_sec are, every returned batch of two or more members
\* has a total member duration of at most max_duration_sec.
C3_DurationBound ==
    (Returned /\ max_duration_sec > 0) =>
        \A b \in DOMAIN batches :
            Len(batches[b]) >= 2 => SumDurations(batches[b]) <= max_duration_sec

\* C4. Count bound: with max_clip_count > 0 every returned batch has at most
\* max_clip_count members, also with standalone isolation enabled and with
\* durations that are unknown or whose probe raises.
C4_CountBound ==
    (Returned /\ max_clip_count > 0) =>
        \A b \in DOMAIN batches : Len(batches[b]) <= max_clip_count

\* C5. Fixed chunking: with max_clip_count = k > 0 and standalone isolation
\* disabled, every batch but the last has exactly k members and the last has
\* between 1 and k; 5 files with k = 2 give [[1,2],[3,4],[5]].
C5_FixedChunking ==
    /\ (Returned /\ video_files # <<>> /\ max_clip_count > 0
                 /\ standalone_threshold_sec = 0) =>
          /\ Len(batches) >= 1
          /\ \A b \in 1..(Len(batches) - 1) : Len(batches[b]) = max_clip_count
          /\ Len(batches[Len(batches)]) \in 1..max_clip_count
    /\ (Returned /\ IsScenario(ScenarioCount)) =>
          batches = << <<1, 2>>, <<3, 4>>, <<5>> >>

\* C5 witness: the five files of the scenario are returned in chunks of two.
C5_Witness ==
    /\ Returned
    /\ IsScenario(ScenarioCount)
    /\ batches = << <<1, 2>>, <<3, 4>>, <<5>> >>

\* C6. No-split default: with max_duration_sec = 0 and max_clip_count = 0, and
\* no file reaching a positive standalone threshold, a non-empty list is
\* returned as exactly one batch holding all files in order.
C6_NoSplitDefault ==
    (/\ Returned /\ video_files # <<>>
     /\ max_duration_sec = 0 /\ max_clip_count = 0
     /\ \/ standalone_threshold_sec <= 0
        \/ \A p \in Range(video_files) :
              DurationUnknown(p) \/ PlannerDuration(p) < standalone_threshold_sec)
        => batches = <<video_files>>

\* C6 witness: several files of positive duration below an enabled threshold,
\* one of them of unknown duration, are returned as one batch.
C6_Witness ==
    /\ Returned
    /\ max_duration_sec = 0 /\ max_clip_count = 0
    /\ standalone_threshold_sec > 0
    /\ Len(video_files) >= 3
    /\ \E p \in Range(video_files) : DurationUnknown(p)
    /\ \E p \in Range(video_files) : PlannerDuration(p) > 0
    /\ batches = <<video_files>>

\* the step handles a file whose duration was obtained, that is not standalone
\* and to which the count rule does not apply, under a duration limit
C7_DurationRuleDecides ==
    /\ pc = "loop"
    /\ idx <= Len(video_files)
    /\ max_duration_sec > 0
    /\ ~FetchDuration(video_files[idx]).raised
    /\ ~is_standalone(FetchDuration(video_files[idx]).duration)
    /\ ~CountRuleApplies(current_batch)

\* C7. Greedy duration rule: in the general path with max_duration_sec > 0, a
\* non-standalone file to which the count rule does not apply is appended to
\* the open batch whenever accumulated + own duration <= max_duration_sec
\* (equality does not split), and a batch is closed only when the sum exceeds
\* the limit; durations 300, 200, 500, 100 with limit 600 give [[A,B],[C,D]].
C7_GreedyDurationRule ==
    /\ [][C7_DurationRuleDecides =>
            LET file == video_files[idx]
                sum == current_duration + FetchDuration(file).duration
            IN /\ sum <= max_duration_sec =>
                    /\ current_batch' = Append(current_batch, file)
                    /\ current_duration' = sum
                    /\ batches' = batches
               /\ batches' # batches =>
                    /\ sum > max_duration_sec
                    /\ batches' = Append(batches, current_batch)
                    /\ current_batch' = <<file>>]_vars
    /\ []((Returned /\ IsScenario(ScenarioDuration)) =>
              batches = << <<1, 2>>, <<3, 4>> >>)

\* C7 witness: the scenario's plan, whose second batch sums to the limit exactly.
C7_Witness ==
    /\ Returned
    /\ IsScenario(ScenarioDuration)
    /\ batches = << <<1, 2>>, <<3, 4>> >>
    /\ SumDurations(batches[2]) = max_duration_sec
    /\ handled = <<"append", "append", "duration", "append">>

RECURSIVE PlaceAllAsKnown(_, _)
\* the loop run over the files with every unknown duration taken as 0, every
\* file going through rules 1-4
PlaceAllAsKnown(st, files) ==
    IF files = <<>> THEN st
    ELSE PlaceAllAsKnown(PlaceFile(st, Head(files), PlannerDuration(Head(files))),
                         Tail(files))

\* the plan in which a file of unknown duration is placed as a file of duration 0
PlanWithUnknownAsZero ==
    IF video_files = <<>> THEN <<>>
    ELSE IF FastPathTaken
         THEN calculate_batches_by_count(video_files, max_clip_count)
         ELSE CloseLast(PlaceAllAsKnown(
                  [batches |-> <<>>, current_batch |-> <<>>,
                   current_duration |-> 0, how |-> "none"], video_files))

\* C8. A file whose duration is missing from the lookup, or whose probe raises,
\* is placed exactly as a file of duration 0 would be under rules 1-4: the
\* returned plan has the same batch boundaries.
C8_UnknownPlacedAsZero ==
    Returned => batches = PlanWithUnknownAsZero

\* C9. No batch of a returned plan is empty, for any input list and any
\* configuration.
C9_NoEmptyBatch ==
    Returned => \A b \in DOMAIN batches : batches[b] # <<>>

\* C9 witness: a plan whose last file was isolated, so that the loop ended
\* with an empty open batch, after an earlier batch was closed.
C9_Witness ==
    /\ Returned
    /\ Len(handled) >= 2
    /\ handled[Len(handled)] = "standalone"
    /\ current_batch = <<>>
    /\ Len(batches) >= 2
    /\ \A b \in DOMAIN batches : batches[b] # <<>>

\* C10. With a lookup supplied the planner never calls the Duration Oracle,
\* for files present in the lookup and for files missing from it; on the
\* count-only fast path no duration is looked up or probed at all.
C10_NoProbeWithLookup ==
    /\ cached_durations.supplied => probe_calls = <<>>
    /\ (Returned /\ video_files # <<>> /\ FastPathTaken) =>
          (probe_calls = <<>> /\ lookup_calls = <<>>)

\* C10 witness: a general-path plan returned with a lookup that misses one of
\* the files: every file was looked up, none probed.
C10_Witness ==
    /\ Returned
    /\ cached_durations.supplied
    /\ ~FastPathTaken
    /\ \E p \in Range(video_files) : p \notin DOMAIN cached_durations.map
    /\ lookup_calls = video_files
    /\ probe_calls = <<>>

(* ======================================================================= *)
(*                 The Pipeline Orchestrator: merge_videos                  *)
(* ======================================================================= *)
\* longest batch merge_videos is called with in MergeSpec
MaxBatchLen == 5

\* no call of calculate_batches: the planner's variables at rest
PlanIdle ==
    /\ video_files = <<>>
    /\ max_duration_sec = 0
    /\ max_clip_count = 0
    /\ standalone_threshold_sec = 0
    /\ cached_durations = [supplied |-> FALSE, map |-> <<>>]
    /\ video_info = <<>>
    /\ pc = "idle"
    /\ idx = 0
    /\ batches = <<>>
    /\ current_batch = <<>>
    /\ current_duration = 0
    /\ probe_calls = <<>>
    /\ lookup_calls = <<>>
    /\ handled = <<>>
    /\ first_plan = NoPlan

\* self.block_size: 10 as constructed (line 35), 4 and 2 after
\* optimize_for_low_end(1) and (2) (lines 48-53)
block_size ==
    IF performance_level >= 2 THEN 2
    ELSE IF performance_level >= 1 THEN 4
    ELSE 10

\* line 216
total_blocks == (Len(mv_files) + block_size - 1) \div block_size

\* mutant: every block starts at the first file (video_files[0 : i + BLOCK_SIZE])
block_files_FromStart(b) ==
    SubSeq(mv_files, 1, Min(b * block_size, Len(mv_files)))

\* line 219: video_files[i : i + BLOCK_SIZE] of block number b (1-based)
block_files(b) ==
    SubSeq(mv_files, (b - 1) * block_size + 1, Min(b * block_size, Len(mv_files)))

(* ---- the worker's progress_callback (worker_thread.py lines 132-143) ---- *)
\* the triples <<index, total_batches, prog>>, total_batches <= 7, for which
\* the double-precision value of ((index + prog / 100) / total_batches) * 100
\* lies just below the integer (100 * index + prog) / total_batches, so that
\* int() gives one less; for every other triple int() gives the exact floor
FloatShortfall ==
    { <<0, 1, 29>>, <<0, 1, 57>>, <<0, 1, 58>>,
      <<0, 2, 58>>, <<1, 2, 16>>, <<1, 2, 82>>,
      <<0, 3, 21>>, <<0, 3, 42>>, <<0, 3, 57>>, <<0, 3, 84>>, <<0, 3, 87>>,
      <<1, 3, 17>>, <<1, 3, 59>>, <<1, 3, 65>>, <<1, 3, 71>>, <<1, 3, 74>>,
      <<2, 3, 34>>, <<2, 3, 97>>,
      <<1, 4, 16>>, <<2, 4, 32>>,
      <<0, 5, 35>>, <<0, 5, 70>>, <<1, 5, 40>>, <<1, 5, 45>>, <<1, 5, 65>>,
      <<2, 5, 80>>, <<2, 5, 90>>, <<3, 5, 30>>, <<4, 5, 35>>, <<4, 5, 55>>,
      <<0, 6, 42>>, <<0, 6, 84>>, <<1, 6, 74>>, <<2, 6, 34>>, <<3, 6, 30>>,
      <<3, 6, 36>>, <<3, 6, 42>>, <<3, 6, 48>>, <<4, 6, 68>>, <<5, 6, 94>>,
      <<0, 7, 49>>, <<0, 7, 98>>, <<1, 7, 82>>, <<1, 7, 96>>, <<2, 7, 3>>,
      <<3, 7, 92>>, <<4, 7, 6>>, <<5, 7, 39>> }

\* line 136: int(((index + (prog / 100)) / total_batches) * 100)
overall_progress(i, prog, total) ==
    IF <<i, total, prog>> \in FloatShortfall
    THEN ((100 * i + prog) \div total) - 1
    ELSE (100 * i + prog) \div total

\* lines 132-137: one call of progress_callback(prog, status); pr.sub is what
\* it was called with, pr.last what was last emitted on progress_updated,
\* pr.decreased whether an emitted value was ever below the one before it
progress_callback(pr, prog) ==
    IF ~is_cancelled
    THEN [sub |-> prog,
          last |-> overall_progress(index, prog, total_batches),
          decreased |-> pr.decreased
                        \/ overall_progress(index, prog, total_batches) < pr.last]
    ELSE [pr EXCEPT !.sub = prog]

RECURSIVE Reported(_, _)
\* progress_callback called with each value of a sequence in turn
Reported(pr, progs) ==
    IF progs = <<>> THEN pr
    ELSE Reported(progress_callback(pr, Head(progs)), Tail(progs))

(* ------------------------------- errors --------------------------------- *)
\* mutant: the primary pipeline's exception is not bound
PrimaryError_Lost(stage) == [kind |-> "none", primary |-> "none", internal |-> "none"]

\* the exception raised by a stage of the primary pipeline
PrimaryError(stage) == [kind |-> "primary", primary |-> stage, internal |-> "none"]

\* mutant: only the fallback's error is raised (raise mp_e)
CombinedError_FallbackOnly(e, mp_e) ==
    [kind |-> "internal", primary |-> "none", internal |-> mp_e]

\* line 254: Exception(f"Merge failed on both engines.\nFFmpeg: {e}\nInternal: {mp_e}")
CombinedError(e, mp_e) == [kind |-> "both", primary |-> e.primary, internal |-> mp_e]

(* --------------------------- external invocations ----------------------- *)
Invocation(kind, inputs, out) == [kind |-> kind, inputs |-> inputs, out |-> out]

\* line 226: int((block_num - 1) / total_blocks * 80)
block_progress(b) == (80 * (b - 1)) \div total_blocks

\* lines 356-362: 10, then 10 + int((i / total_files) * 60) before each of the
\* first k files
fallback_load_progress(k) ==
    <<10>> \o [i \in 1..k |-> 10 + ((60 * (i - 1)) \div Len(mv_files))]

\* what the Fallback Engine reports before it ends, by the stage it ends at:
\* "import" (lines 344-349), "open" of file k (lines 359-367: the file is
\* missing or VideoFileClip raises), "process" of file k (lines 369-390: the
\* resize, the compositing, the fps or the audio of the opened clip raises),
\* "concat" (394-397), "encode" (399-410), or "ok" (line 414, nothing is
\* reported after 90)
fallback_progress(stage, k) ==
    CASE stage = "import" -> <<>>
      [] stage \in {"open", "process"} -> fallback_load_progress(k)
      [] stage = "concat" -> fallback_load_progress(Len(mv_files)) \o <<80>>
      [] OTHER            -> fallback_load_progress(Len(mv_files)) \o <<80, 90>>

\* line 392: the clips appended to the list clips when the Fallback Engine
\* ends at a stage: those of the files before file k when it ends at file k,
\* those of all files when it ends later
fallback_clips(stage, k) ==
    CASE stage = "import" -> <<>>
      [] stage \in {"open", "process"} -> [i \in 1..(k - 1) |-> i]
      [] OTHER -> [i \in 1..Len(mv_files) |-> i]

\* line 367: the clips VideoFileClip has opened when the Fallback Engine ends
\* at a stage: the listed ones, and the clip of file k when its processing
\* raises
fallback_opened(stage, k) ==
    Range(fallback_clips(stage, k)) \cup (IF stage = "process" THEN {k} ELSE {})

\* lines 411 and 416-419: every clip of the list clips is closed
CloseClips(clips) == Range(clips)

\* the clips of the Fallback Engine when it ends at a stage
ClipsAtEnd(stage, k) ==
    [clips |-> fallback_clips(stage, k),
     opened |-> fallback_opened(stage, k),
     closed |-> CloseClips(fallback_clips(stage, k))]

\* mutant: the temp file listed last is left behind
RemoveTemps_SkipsLast(existing, temps) ==
    existing \ Range(SubSeq(temps, 1, Len(temps) - 1))

\* lines 255-260: every listed temp file that exists is removed
RemoveTemps(existing, temps) == existing \ Range(temps)

mvFixed == <<performance_level, mv_files, mv_output>>

\* mutant: the exit status of ffmpeg -version is not checked
AfterToolCheck_Unchecked(ok) == "block"

\* lines 210 and 243: subprocess.run(..., check=True) returns, or raises into
\* the except clause
AfterToolCheck(ok) == IF ok THEN "block" ELSE "except"

\* mutant: a non-zero exit of the block merge is not raised
AfterBlock_Unchecked(ok) == "block"

\* lines 230, 313-317 and 243: _ffmpeg_merge_block returns and the loop goes
\* on, or it raises on a non-zero exit into the except clause
AfterBlock(ok) == IF ok THEN "block" ELSE "except"

\* lines 188-193 and 206: an empty list returns False; one file announces the
\* fast copy; two or more go to the primary pipeline
MV_Enter ==
    /\ mv_pc = "entry"
    /\ IF mv_files = <<>>
       THEN /\ mv_result' = "False"
            /\ mv_pc' = "returned"
            /\ progress' = progress
       ELSE IF Len(mv_files) = 1
       THEN /\ progress' = progress_callback(progress, 50)
            /\ mv_pc' = "copy"
            /\ mv_result' = mv_result
       ELSE /\ mv_pc' = "toolcheck"
            /\ UNCHANGED <<progress, mv_result>>
    /\ UNCHANGED <<planVars, jobVars, windowVars, oracleVars, mvFixed, mp_clips, temp_files, fs_temps, fs_outputs,
                   primary_error, mv_error, fallback_calls, invocations>>

\* lines 194-197: source and destination are the same file: nothing to do
MV_CopySameFile ==
    /\ mv_pc = "copy"
    /\ mv_files[1] = mv_output
    /\ mv_result' = "True"
    /\ mv_pc' = "returned"
    /\ UNCHANGED <<planVars, jobVars, windowVars, oracleVars, mvFixed, mp_clips, temp_files, fs_temps, fs_outputs,
                   primary_error, mv_error, fallback_calls, invocations, progress>>

\* lines 198-200: shutil.copy2 succeeds
MV_CopyDone ==
    /\ mv_pc = "copy"
    /\ mv_files[1] # mv_output
    /\ invocations' = Append(invocations, Invocation("copy", mv_files, mv_output))
    /\ fs_outputs' = fs_outputs \cup {mv_output}
    /\ progress' = progress_callback(progress, 100)
    /\ mv_result' = "True"
    /\ mv_pc' = "returned"
    /\ UNCHANGED <<planVars, jobVars, windowVars, oracleVars, mvFixed, mp_clips, temp_files, fs_temps,
                   primary_error, mv_error, fallback_calls>>

\* lines 198 and 201-204: shutil.copy2 raises (it may leave a partial
\* destination); the call falls through to the standard merge
MV_CopyFails ==
    /\ mv_pc = "copy"
    /\ mv_files[1] # mv_output
    /\ invocations' = Append(invocations, Invocation("copy", mv_files, mv_output))
    /\ \E partial \in BOOLEAN :
          fs_outputs' = IF partial THEN fs_outputs \cup {mv_output} ELSE fs_outputs
    /\ mv_pc' = "toolcheck"
    /\ UNCHANGED <<planVars, jobVars, windowVars, oracleVars, mvFixed, mp_clips, temp_files, fs_temps, progress,
                   primary_error, mv_result, mv_error, fallback_calls>>

\* lines 206-210: ffmpeg -version runs
MV_ToolCheckOk ==
    /\ mv_pc = "toolcheck"
    /\ invocations' = Append(invocations, Invocation("toolcheck", <<>>, 0))
    /\ temp_files' = <<>>
    /\ mv_pc' = AfterToolCheck(TRUE)
    /\ UNCHANGED <<planVars, jobVars, windowVars, oracleVars, mvFixed, mp_clips, fs_temps, fs_outputs, progress,
                   primary_error, mv_result, mv_error, fallback_calls>>

\* lines 206-210 and 243: ffmpeg -version raises
MV_ToolCheckFails ==
    /\ mv_pc = "toolcheck"
    /\ invocations' = Append(invocations, Invocation("toolcheck", <<>>, 0))
    /\ temp_files' = <<>>
    /\ primary_error' = PrimaryError("toolcheck")
    /\ mv_pc' = AfterToolCheck(FALSE)
    /\ UNCHANGED <<planVars, jobVars, windowVars, oracleVars, mvFixed, mp_clips, fs_temps, fs_outputs, progress,
                   mv_result, mv_error, fallback_calls>>

\* lines 218-230: the next block is merged into its temp file
MV_BlockOk ==
    /\ mv_pc = "block"
    /\ Len(temp_files) < total_blocks
    /\ LET b == Len(temp_files) + 1
       IN /\ temp_files' = Append(temp_files, b)
          /\ progress' = progress_callback(progress, block_progress(b))
          /\ invocations' = Append(invocations, Invocation("block", block_files(b), b))
          /\ fs_temps' = fs_temps \cup {b}
    /\ mv_pc' = AfterBlock(TRUE)
    /\ UNCHANGED <<planVars, jobVars, windowVars, oracleVars, mvFixed, mp_clips, fs_outputs,
                   primary_error, mv_result, mv_error, fallback_calls>>

\* lines 218-230, 313-317 and 243: the merge of the next block raises (the
\* temp file is listed before the invocation, which may leave a partial file)
MV_BlockFails ==
    /\ mv_pc = "block"
    /\ Len(temp_files) < total_blocks
    /\ LET b == Len(temp_files) + 1
       IN /\ temp_files' = Append(temp_files, b)
          /\ progress' = progress_callback(progress, block_progress(b))
          /\ invocations' = Append(invocations, Invocation("block", block_files(b), b))
          /\ \E partial \in BOOLEAN :
                fs_temps' = IF partial THEN fs_temps \cup {b} ELSE fs_temps
    /\ primary_error' = PrimaryError("block")
    /\ mv_pc' = AfterBlock(FALSE)
    /\ UNCHANGED <<planVars, jobVars, windowVars, oracleVars, mvFixed, mp_clips, fs_outputs,
                   mv_result, mv_error, fallback_calls>>

\* lines 232-241: the temp files are merged into the destination
MV_FinalOk ==
    /\ mv_pc = "block"
    /\ Len(temp_files) = total_blocks
    /\ invocations' = Append(invocations, Invocation("final", temp_files, mv_output))
    /\ fs_outputs' = fs_outputs \cup {mv_output}
    /\ progress' = Reported(progress, <<90, 100>>)
    /\ mv_result' = "True"
    /\ mv_pc' = "finally"
    /\ UNCHANGED <<planVars, jobVars, windowVars, oracleVars, mvFixed, mp_clips, temp_files, fs_temps,
                   primary_error, mv_error, fallback_calls>>

\* lines 232-237, 313-317 and 243: the final merge raises
MV_FinalFails ==
    /\ mv_pc = "block"
    /\ Len(temp_files) = total_blocks
    /\ invocations' = Append(invocations, Invocation("final", temp_files, mv_output))
    /\ \E partial \in BOOLEAN :
          fs_outputs' = IF partial THEN fs_outputs \cup {mv_output} ELSE fs_outputs
    /\ progress' = progress_callback(progress, 90)
    /\ primary_error' = PrimaryError("final")
    /\ mv_pc' = "except"
    /\ UNCHANGED <<planVars, jobVars, windowVars, oracleVars, mvFixed, mp_clips, temp_files, fs_temps,
                   mv_result, mv_error, fallback_calls>>

\* line 247: the fallback is forbidden at performance level 2 and above
FallbackForbidden == performance_level >= 2

\* lines 243-254 at the most constrained tier: the exception raised at line
\* 248 is caught at line 253 and the combined error raised
MV_FallbackForbidden ==
    /\ mv_pc = "except"
    /\ FallbackForbidden
    /\ mv_error' = CombinedError(primary_error, "disabled")
    /\ mv_result' = "raised"
    /\ mv_pc' = "finally"
    /\ UNCHANGED <<planVars, jobVars, windowVars, oracleVars, mvFixed, mp_clips, temp_files, fs_temps, fs_outputs,
                   primary_error, fallback_calls, invocations, progress>>

\* lines 250-252: the fallback is announced and _merge_with_moviepy called
MV_FallbackStart ==
    /\ mv_pc = "except"
    /\ ~FallbackForbidden
    /\ progress' = progress_callback(progress, 0)
    /\ fallback_calls' = fallback_calls + 1
    /\ invocations' = Append(invocations, Invocation("fallback", mv_files, mv_output))
    /\ mp_clips' = NoClips
    /\ mv_pc' = "fallback"
    /\ UNCHANGED <<planVars, jobVars, windowVars, oracleVars, mvFixed, temp_files, fs_temps, fs_outputs,
                   primary_error, mv_result, mv_error>>

\* lines 339-414: the Fallback Engine encodes the destination and returns True
MV_FallbackOk ==
    /\ mv_pc = "fallback"
    /\ progress' = Reported(progress, fallback_progress("ok", 0))
    /\ mp_clips' = ClipsAtEnd("ok", 0)
    /\ fs_outputs' = fs_outputs \cup {mv_output}
    /\ mv_result' = "True"
    /\ mv_pc' = "finally"
    /\ UNCHANGED <<planVars, jobVars, windowVars, oracleVars, mvFixed, temp_files, fs_temps,
                   primary_error, mv_error, fallback_calls, invocations>>

\* lines 339-420 and 253-254: the Fallback Engine raises, at its imports, at
\* the opening or the processing of a file, at the concatenation or at the
\* encode (which may leave a partial destination); its except clause closes
\* the listed clips and the combined error is raised
MV_FallbackFails ==
    /\ mv_pc = "fallback"
    /\ \E stage \in {"import", "open", "process", "concat", "encode"} :
          \E k \in (IF stage \in {"open", "process"} THEN 1..Len(mv_files) ELSE {0}) :
             \E partial \in (IF stage = "encode" THEN BOOLEAN ELSE {FALSE}) :
                /\ progress' = Reported(progress, fallback_progress(stage, k))
                /\ mp_clips' = ClipsAtEnd(stage, k)
                /\ fs_outputs' = IF partial THEN fs_outputs \cup {mv_output}
                                 ELSE fs_outputs
    /\ mv_error' = CombinedError(primary_error, "failed")
    /\ mv_result' = "raised"
    /\ mv_pc' = "finally"
    /\ UNCHANGED <<planVars, jobVars, windowVars, oracleVars, mvFixed, temp_files, fs_temps,
                   primary_error, fallback_calls, invocations>>

\* lines 255-260: the finally clause removes the temp files, then the call
\* returns or raises
MV_Finally ==
    /\ mv_pc = "finally"
    /\ fs_temps' = RemoveTemps(fs_temps, temp_files)
    /\ mv_pc' = "returned"
    /\ UNCHANGED <<planVars, jobVars, windowVars, oracleVars, mvFixed, mp_clips, temp_files, fs_outputs, progress,
                   primary_error, mv_result, mv_error, fallback_calls, invocations>>

\* one step of a call of merge_videos
MergeStep ==
    \/ MV_Enter
    \/ MV_CopySameFile
    \/ MV_CopyDone
    \/ MV_CopyFails
    \/ MV_ToolCheckOk
    \/ MV_ToolCheckFails
    \/ MV_BlockOk
    \/ MV_BlockFails
    \/ MV_FinalOk
    \/ MV_FinalFails
    \/ MV_FallbackForbidden
    \/ MV_FallbackStart
    \/ MV_FallbackOk
    \/ MV_FallbackFails
    \/ MV_Finally

\* the state in which merge_videos is entered with a batch and a destination
MergeCalled(files, out) ==
    /\ mv_files = files
    /\ mv_output = out
    /\ mv_pc = "entry"
    /\ temp_files = <<>>
    /\ primary_error = NoError
    /\ mv_result = "none"
    /\ mv_error = NoError
    /\ fallback_calls = 0
    /\ invocations = <<>>

\* merge_videos called with 0..MaxBatchLen files at every performance level,
\* the destination a new path (0) or the first input (1), with the callback of
\* a worker that runs its only batch
MergeInit ==
    /\ PlanIdle
    /\ JobIdle
    /\ WindowIdle
    /\ OracleIdle
    /\ mp_clips = NoClips
    /\ \E n \in 0..MaxBatchLen, level \in {0, 1, 2}, out \in {0, 1} :
          /\ performance_level = level
          /\ MergeCalled([k \in 1..n |-> k], out)
    /\ fs_temps = {}
    /\ fs_outputs = {}
    /\ progress = [NoProgress EXCEPT !.last = 0]

MergeSpec == MergeInit /\ [][MergeStep]_vars

(* ----------------------- properties of merge_videos --------------------- *)
\* mutant: the call counts as returned while its pipeline still runs
MvReturned_Early == mv_pc \notin {"idle", "entry"}

\* the call of merge_videos has returned or raised
MvReturned == mv_pc = "returned"

C12_ForbiddenReraisesOriginal ==
    (MvReturned /\ performance_level >= 2 /\ primary_error # NoError) =>
        /\ fallback_calls = 0
        /\ mv_result = "raised"
        /\ mv_error = primary_error

\* C13. When the primary pipeline fails and the permitted fallback fails too,
\* merge_videos raises one error that carries the primary error's message and
\* the fallback error's message.
C13_BothMessages ==
    (/\ mv_pc \in {"finally", "returned"}
     /\ primary_error # NoError
     /\ fallback_calls = 1
     /\ mv_result # "True") =>
        /\ mv_result = "raised"
        /\ mv_error.kind = "both"
        /\ mv_error.primary = primary_error.primary
        /\ mv_error.internal = "failed"

\* C13 witness: a call whose block merge failed and whose fallback failed has
\* raised the combined error.
C13_Witness ==
    /\ MvReturned
    /\ primary_error = PrimaryError("block")
    /\ fallback_calls = 1
    /\ mv_result = "raised"
    /\ mv_error = [kind |-> "both", primary |-> "block", internal |-> "failed"]

(* ======================================================================= *)
(*               The Batch Coordinator: VideoMergerWorker.run               *)
(* ======================================================================= *)
\* mutant: only the first file is validated
invalid_files_FirstOnly ==
    IF video_files = <<>> THEN {} ELSE {video_files[1]} \cap files_missing

\* video_merger_robust.py lines 422-427: the listed paths that do not exist
invalid_files == Range(video_files) \cap files_missing

\* worker_thread.py line 81: a limit is set, so the planner is called
SplittingEnabled ==
    max_duration_sec > 0 \/ max_clip_count > 0 \/ standalone_threshold_sec > 0

\* mutant: the destination is derived from output_path for a single batch too
current_output_path_AlwaysDerived(i) == 0 - (i + 1)

\* lines 104-121: the destination of batch i (0-based): output_path for a job
\* of one batch, a name derived from it and i + 1 otherwise (0 - (i + 1) stands
\* for the derived name: it differs from output_path, from every input path
\* and from the name of every other batch)
current_output_path(i) ==
    IF total_batches > 1 THEN 0 - (i + 1) ELSE output_path

(* ---- the names of the destinations (worker_thread.py lines 104-121) ---- *)
\* str.isalnum() on the characters the titles are written with
isalnum(c) == c \in {"M", "7"}

\* line 116: the characters of the title that are kept
KeptInTitle(c) == isalnum(c) \/ c \in {" ", "-", "_"}

RECURSIVE lstrip(_)
\* str.lstrip(): leading white space removed
lstrip(t) == IF t # <<>> /\ Head(t) = " " THEN lstrip(Tail(t)) ELSE t

RECURSIVE rstrip(_)
\* str.rstrip(): trailing white space removed
rstrip(t) ==
    IF t # <<>> /\ t[Len(t)] = " " THEN rstrip(SubSeq(t, 1, Len(t) - 1)) ELSE t

\* lines 116-117: the title without the characters that are not kept, stripped;
\* "Project" when nothing is left
safe_title(t) ==
    IF rstrip(lstrip(SelectSeq(t, KeptInTitle))) = <<>>
    THEN <<"Project">>
    ELSE rstrip(lstrip(SelectSeq(t, KeptInTitle)))

RECURSIVE list_index(_, _)
\* list.index(x): the 0-based position of the first member equal to x
list_index(list, x) ==
    IF Head(list) = x THEN 0 ELSE 1 + list_index(Tail(list), x)

\* the name that is output_path itself
CallerName == [form |-> "caller", title |-> <<>>, start |-> 0, end |-> 0, ordinal |-> 0]

\* mutant: the number of the batch is left out of the derived names
output_name_NoOrdinal(i, batch_files) ==
    IF total_batches > 1
    THEN IF auto_naming
         THEN [form |-> "clip",
               title |-> safe_title(comp_title),
               start |-> list_index(video_files, batch_files[1]) + 1,
               end |-> list_index(video_files, batch_files[Len(batch_files)]) + 1,
               ordinal |-> 1]
         ELSE [form |-> "part", title |-> <<>>, start |-> 0, end |-> 0,
               ordinal |-> 1]
    ELSE CallerName

\* lines 104-121: the name of the destination of batch i (0-based) with the
\* members batch_files: output_path itself for a job of one batch; otherwise
\* "<safe title> clip-<start>-<end> merge <i + 1><ext>" in the folder of
\* output_path with descriptive naming, "<base>_part<i + 1><ext>" without
\* (folder, base and ext are those of output_path in every name of a job)
output_name(i, batch_files) ==
    IF total_batches > 1
    THEN IF auto_naming
         THEN [form |-> "clip",
               title |-> safe_title(comp_title),
               start |-> list_index(video_files, batch_files[1]) + 1,
               end |-> list_index(video_files, batch_files[Len(batch_files)]) + 1,
               ordinal |-> i + 1]
         ELSE [form |-> "part", title |-> <<>>, start |-> 0, end |-> 0,
               ordinal |-> i + 1]
    ELSE CallerName

\* mutant: the loop does not look at the flag
CancelSeenAtLoopTop_Never == FALSE

\* line 100: the flag as the loop reads it before it starts a batch
CancelSeenAtLoopTop == is_cancelled

\* mutant: only a raised exception fails the job
BatchFailed_OnlyRaised(result) == result = "raised"

\* lines 152 and 167: merge_videos returned a false value, or raised
BatchFailed(result) == result # "True"

jobFixed == <<files_missing, output_path, auto_naming, comp_title>>

\* lines 65-74: the first progress value is emitted and the files validated;
\* a missing file fails the job
W_Validate ==
    /\ w_pc = "start"
    /\ progress' = [NoProgress EXCEPT !.last = 0]
    /\ IF invalid_files # {}
       THEN /\ merge_failed' = merge_failed + 1
            /\ w_pc' = "done"
       ELSE /\ w_pc' = "validated"
            /\ UNCHANGED merge_failed
    /\ UNCHANGED <<planVars, jobFixed, windowVars, oracleVars, index, total_batches, generated_files,
                   is_cancelled, merge_completed, merge_calls, calls_after_cancel, output_names>>
    /\ UNCHANGED <<mvFixed, mp_clips, mv_pc, temp_files, fs_temps, fs_outputs, primary_error,
                   mv_result, mv_error, fallback_calls, invocations>>

\* lines 76-77: the flag is read after the validation; a cancelled job returns
W_CheckAfterValidate ==
    /\ w_pc = "validated"
    /\ w_pc' = IF is_cancelled THEN "done" ELSE "plan"
    /\ UNCHANGED <<planVars, mergeVars, jobFixed, windowVars, oracleVars, index, total_batches,
                   generated_files, is_cancelled, merge_completed, merge_failed,
                   merge_calls, calls_after_cancel, output_names>>

\* lines 80-90: calculate_batches is called (without a lookup) when a limit is
\* set; otherwise the whole list is the only batch
W_Plan ==
    /\ w_pc = "plan"
    /\ IF SplittingEnabled
       THEN /\ pc' = "call"
            /\ UNCHANGED batches
       ELSE /\ batches' = << video_files >>
            /\ pc' = "done"
    /\ w_pc' = "planning"
    /\ UNCHANGED <<inputVars, first_plan, idx, current_batch, current_duration, probe_calls,
                   lookup_calls, handled>>
    /\ UNCHANGED <<mergeVars, jobFixed, windowVars, oracleVars, index, total_batches, generated_files,
                   is_cancelled, merge_completed, merge_failed, merge_calls,
                   calls_after_cancel, output_names>>

\* lines 92-99: the plan is there; the loop starts at its first batch
W_Planned ==
    /\ w_pc = "planning"
    /\ pc = "done"
    /\ total_batches' = Len(batches)
    /\ index' = 0
    /\ generated_files' = <<>>
    /\ w_pc' = "loop"
    /\ UNCHANGED <<planVars, mergeVars, jobFixed, windowVars, oracleVars, is_cancelled, merge_completed,
                   merge_failed, merge_calls, calls_after_cancel, output_names>>

\* lines 99-101: the loop takes the next batch, if there is one, and reads
\* the flag; a cancelled job returns
W_LoopCheck ==
    /\ w_pc = "loop"
    /\ w_pc' = IF index >= total_batches THEN "final"
               ELSE IF CancelSeenAtLoopTop THEN "done"
               ELSE "call"
    /\ UNCHANGED <<planVars, mergeVars, jobFixed, windowVars, oracleVars, index, total_batches,
                   generated_files, is_cancelled, merge_completed, merge_failed,
                   merge_calls, calls_after_cancel, output_names>>

\* lines 103-150: the destination is named and merge_videos called
W_Call ==
    /\ w_pc = "call"
    /\ mv_files' = batches[index + 1]
    /\ mv_output' = current_output_path(index)
    /\ mv_pc' = "entry"
    /\ temp_files' = <<>>
    /\ primary_error' = NoError
    /\ mv_result' = "none"
    /\ mv_error' = NoError
    /\ fallback_calls' = 0
    /\ invocations' = <<>>
    /\ merge_calls' = Append(merge_calls, index)
    /\ output_names' = Append(output_names, output_name(index, batches[index + 1]))
    /\ calls_after_cancel' = calls_after_cancel + (IF is_cancelled THEN 1 ELSE 0)
    /\ w_pc' = "merging"
    /\ UNCHANGED <<planVars, performance_level, fs_temps, fs_outputs, progress,
                   mp_clips>>
    /\ UNCHANGED <<jobFixed, windowVars, oracleVars, index, total_batches, generated_files, is_cancelled,
                   merge_completed, merge_failed>>

\* mutant: the loop stays at the batch it has merged
NextIndex_Stuck(i) == i

\* line 99: enumerate goes on to the next batch
NextIndex(i) == i + 1

\* lines 152-156 and 167-175: merge_videos is back; a failed batch fails the
\* job, a merged one is recorded and the loop goes on
W_AfterMerge ==
    /\ w_pc = "merging"
    /\ MvReturned
    /\ IF BatchFailed(mv_result)
       THEN /\ merge_failed' = merge_failed + 1
            /\ w_pc' = "done"
            /\ UNCHANGED <<generated_files, index>>
       ELSE /\ generated_files' = Append(generated_files, current_output_path(index))
            /\ index' = NextIndex(index)
            /\ w_pc' = "loop"
            /\ UNCHANGED merge_failed
    /\ mv_pc' = "idle"
    /\ UNCHANGED <<planVars, mvFixed, mp_clips, temp_files, fs_temps, fs_outputs, primary_error,
                   mv_result, mv_error, fallback_calls, invocations, progress>>
    /\ UNCHANGED <<jobFixed, windowVars, oracleVars, total_batches, is_cancelled, merge_completed,
                   merge_calls, calls_after_cancel, output_names>>

\* mutant: the flag is not looked at after the loop
CancelSeenAfterLoop_Never == FALSE

\* line 158: the flag as read after the loop
CancelSeenAfterLoop == is_cancelled

\* lines 158-165: the flag is read after the loop; a cancelled job returns,
\* any other emits merge_completed
W_Complete ==
    /\ w_pc = "final"
    /\ merge_completed' = IF CancelSeenAfterLoop THEN merge_completed
                          ELSE merge_completed + 1
    /\ w_pc' = "done"
    /\ UNCHANGED <<planVars, mergeVars, jobFixed, windowVars, oracleVars, index, total_batches,
                   generated_files, is_cancelled, merge_failed, merge_calls,
                   calls_after_cancel, output_names>>

\* lines 177-182: cancel(), called from the thread of the window while the
\* worker runs (a second call changes nothing)
Cancel ==
    /\ w_pc \notin {"idle", "done"}
    /\ ~is_cancelled
    /\ is_cancelled' = TRUE
    /\ UNCHANGED <<planVars, mergeVars, jobFixed, windowVars, oracleVars, w_pc, index, total_batches,
                   generated_files, merge_completed, merge_failed, merge_calls,
                   calls_after_cancel, output_names>>

\* the performance levels of the jobs: as constructed, and the most constrained
JobLevels == {0, 2}

\* the limits a job is started with (main.py lines 891-898): none, a duration
\* limit or a count limit, each with or without the standalone threshold
JobLimits ==
    {[max_duration_sec |-> md, max_clip_count |-> mc, standalone_threshold_sec |-> th] :
        md \in {0, MaxDur + 1}, mc \in {0, 2}, th \in {0, MaxDur}}

\* the state in which run() starts: the worker as constructed (lines 47-55)
\* with files 1..n, every probe giving the duration dur
JobInitWith(f, dur, lim, level, missing, out, naming) ==
    /\ video_files = f
    /\ max_duration_sec = lim.max_duration_sec
    /\ max_clip_count = lim.max_clip_count
    /\ standalone_threshold_sec = lim.standalone_threshold_sec
    /\ cached_durations = [supplied |-> FALSE, map |-> <<>>]
    /\ video_info = [p \in Range(f) |-> [ok |-> TRUE, duration |-> dur]]
    /\ pc = "idle"
    /\ idx = 0
    /\ batches = <<>>
    /\ current_batch = <<>>
    /\ current_duration = 0
    /\ probe_calls = <<>>
    /\ lookup_calls = <<>>
    /\ handled = <<>>
    /\ first_plan = NoPlan
    /\ performance_level = level
    /\ mv_files = <<>>
    /\ mv_output = 0
    /\ mv_pc = "idle"
    /\ temp_files = <<>>
    /\ fs_temps = {}
    /\ fs_outputs = {}
    /\ primary_error = NoError
    /\ mv_result = "none"
    /\ mv_error = NoError
    /\ fallback_calls = 0
    /\ invocations = <<>>
    /\ progress = NoProgress
    /\ mp_clips = NoClips
    /\ WindowIdle
    /\ OracleIdle
    /\ auto_naming = naming.auto_naming
    /\ comp_title = naming.comp_title
    /\ files_missing = missing
    /\ output_path = out
    /\ w_pc = "start"
    /\ index = 0
    /\ total_batches = 1
    /\ generated_files = <<>>
    /\ is_cancelled = FALSE
    /\ merge_completed = 0
    /\ merge_failed = 0
    /\ merge_calls = <<>>
    /\ calls_after_cancel = 0
    /\ output_names = <<>>

\* the file lists of the jobs: 1..n, and lists of three and more files in
\* which two paths alternate
JobLists ==
    {[k \in 1..n |-> k] : n \in 0..MaxFiles}
        \cup {[k \in 1..n |-> ((k - 1) % 2) + 1] : n \in 3..MaxFiles}

\* the naming settings of the jobs: descriptive naming with a title that is
\* kept and with one of which nothing is kept, and _partK naming
JobNamings ==
    {[auto_naming |-> TRUE, comp_title |-> <<"M", "7">>],
     [auto_naming |-> TRUE, comp_title |-> <<" ", "/">>],
     [auto_naming |-> FALSE, comp_title |-> <<"M", "7">>]}

\* jobs over the file lists, the files of one duration, under every limit and
\* naming, with no file or one file missing, the destination a new path (0)
\* or the first input (1)
JobInit ==
    \E f \in JobLists :
       \E dur \in {1, MaxDur}, lim \in JobLimits, level \in JobLevels,
          missing \in {{}} \cup {{p} : p \in Range(f)}, out \in {0, 1},
          naming \in JobNamings :
             /\ lim.max_duration_sec = 0 \/ lim.max_clip_count = 0
             /\ JobInitWith(f, dur, lim, level, missing, out, naming)

\* the worker, the planner and merge_videos it calls, and cancel()
JobNext ==
    \/ W_Validate
    \/ W_CheckAfterValidate
    \/ W_Plan
    \/ PlanNext
    \/ W_Planned
    \/ W_LoopCheck
    \/ W_Call
    \/ MergeStep
    \/ W_AfterMerge
    \/ W_Complete
    \/ Cancel

JobSpec == JobInit /\ [][JobNext]_vars

\* the steps of the worker thread and of the calls it makes: every step of a
\* job but cancel(), which the window's thread makes
WorkerStep ==
    \/ W_Validate
    \/ W_CheckAfterValidate
    \/ W_Plan
    \/ PlanNext
    \/ W_Planned
    \/ W_LoopCheck
    \/ W_Call
    \/ MergeStep
    \/ W_AfterMerge
    \/ W_Complete

\* the worker thread is scheduled and every external invocation it waits for
\* returns: a step of the worker that stays possible is taken
JobFairSpec == JobSpec /\ WF_vars(WorkerStep)

JobDone == w_pc = "done"

(* ------------------------- properties of the job ------------------------ *)
\* C14. Within one call of merge_videos the Fallback Engine is invoked at most
\* once, and only after the tool check, a block merge or the final merge of
\* the primary pipeline raised (so never when the primary pipeline succeeded);
\* and the coordinator calls merge_videos at most once for a batch: a failed
\* batch is not retried.
C14_FallbackOnceNoRetry ==
    /\ fallback_calls <= 1
    /\ fallback_calls = 1 => primary_error.primary \in {"toolcheck", "block", "final"}
    /\ (mv_result = "True" /\ primary_error = NoError) => fallback_calls = 0
    /\ \A j \in DOMAIN merge_calls : merge_calls[j] = j - 1

\* the second batch of a job of three or more failed on both engines, the
\* fallback was called once and the job ended without another call
C14_Witness ==
    /\ JobDone
    /\ total_batches >= 3
    /\ merge_calls = <<0, 1>>
    /\ fallback_calls = 1
    /\ primary_error = PrimaryError("final")
    /\ mv_result = "raised"
    /\ merge_failed = 1

\* C15. Progress monotonicity: in a job whose batches all succeed (by fast
\* copy, by the primary pipeline or by the fallback) and which is not
\* cancelled, the values emitted on progress_updated never decrease and the
\* last one is 100.
C15_ProgressMonotoneTo100 ==
    (JobDone /\ merge_completed = 1 /\ ~is_cancelled /\ total_batches >= 1)
        => ~progress.decreased /\ progress.last = 100

\* C17 as stated. Once cancel() has set the flag, no call of merge_videos is
\* started, under every interleaving of cancel() with the loop of run.
C17_NoCallAfterCancel == calls_after_cancel = 0

\* C17 amended. Once cancel() has set the flag, at most one call of
\* merge_videos is started: the call of the batch for which the loop had read
\* the flag before it was set.
C17_AtMostOneCallAfterCancel == calls_after_cancel <= 1

\* cancel() came between the loop's read of the flag and the call for the
\* first batch; that batch was merged, the next read of the flag ended the job
\* and the batches left were not started
C17_Witness ==
    /\ JobDone
    /\ is_cancelled
    /\ calls_after_cancel = 1
    /\ merge_calls = <<0>>
    /\ generated_files = <<0 - 1>>
    /\ total_batches >= 2

\* C18. Every execution of run, however it ends, delivers exactly one terminal
\* signal: merge_completed or merge_failed, never both and never neither.
C18_ExactlyOneTerminalSignal ==
    JobDone => merge_completed + merge_failed = 1

\* C19. Fail-fast validation: if an input file does not exist when the job
\* starts, the job emits merge_failed (and not merge_completed) and there is
\* no planning, no probe, no call of merge_videos, no copy and no transcode.
C19_FailFastValidation ==
    (w_pc # "idle" /\ Range(video_files) \cap files_missing # {}) =>
        /\ pc = "idle"
        /\ probe_calls = <<>>
        /\ lookup_calls = <<>>
        /\ merge_calls = <<>>
        /\ invocations = <<>>
        /\ fs_outputs = {}
        /\ fs_temps = {}
        /\ merge_completed = 0
        /\ JobDone => merge_failed = 1

\* a job with a limit set whose second file is missing has ended
C19_Witness ==
    /\ JobDone
    /\ SplittingEnabled
    /\ Len(video_files) >= 2
    /\ files_missing = {2}
    /\ merge_failed = 1

\* C20. If the merge_videos call of batch k returns False or raises, the job
\* emits merge_failed (and not merge_completed), no batch after k is started,
\* and the outputs of the batches merged before k still exist.
C20_BatchFailureFailsJob ==
    (JobDone /\ mv_result \in {"False", "raised"}) =>
        /\ merge_failed = 1
        /\ merge_completed = 0
        /\ merge_calls = [j \in 1..(index + 1) |-> j - 1]
        /\ generated_files = [j \in 1..index |-> current_output_path(j - 1)]
        /\ Range(generated_files) \subseteq fs_outputs

\* the second batch of a job of three or more raised; the output of the first
\* is in place and the third was not started
C20_Witness ==
    /\ JobDone
    /\ mv_result = "raised"
    /\ index = 1
    /\ total_batches >= 3
    /\ merge_calls = <<0, 1>>
    /\ (0 - 1) \in fs_outputs
    /\ merge_failed = 1

\* C21. If the plan is a single batch, the destination passed to merge_videos
\* is the caller's output_path itself, whatever the title and the naming
\* setting.
C21_SingleBatchKeepsPath ==
    (total_batches = 1 /\ merge_calls # <<>>) =>
        /\ mv_output = output_path
        /\ output_names = <<CallerName>>

\* a job with a limit, descriptive naming and a title of which nothing is
\* kept, planned as one batch of two or more files, merged it into output_path
C21_Witness ==
    /\ JobDone
    /\ SplittingEnabled
    /\ total_batches = 1
    /\ Len(video_files) >= 2
    /\ auto_naming
    /\ comp_title = <<" ", "/">>
    /\ mv_output = output_path
    /\ output_path \in fs_outputs
    /\ merge_completed = 1

\* the 1-based positions in the original list of the first and of the last
\* member of batch k (1-based) of the plan
FirstPosition(k) == Len(Flatten(SubSeq(batches, 1, k - 1))) + 1
LastPosition(k) == Len(Flatten(SubSeq(batches, 1, k)))

\* C22. With more than one batch and descriptive naming, the index range in
\* the name of batch k is the 1-based position in the original list of the
\* first and of the last member of the batch (so the ranges are contiguous,
\* from 1 to the length of the list), for every list, also one that holds
\* the same path more than once.
C22_NameRangeIsPosition ==
    \A k \in DOMAIN output_names :
        output_names[k].form = "clip" =>
            /\ output_names[k].start = FirstPosition(k)
            /\ output_names[k].end = LastPosition(k)

(* ======================================================================= *)
(*                     progress_callback as a function                      *)
(* ======================================================================= *)
\* most batches of the jobs whose progress_callback is applied
MaxBatches == 5

\* the callback of batch index of a job of total_batches batches, not cancelled,
\* before its first call
ProgressInit ==
    /\ PlanIdle
    /\ performance_level = 0
    /\ mv_files = <<>>
    /\ mv_output = 0
    /\ mv_pc = "idle"
    /\ temp_files = <<>>
    /\ fs_temps = {}
    /\ fs_outputs = {}
    /\ primary_error = NoError
    /\ mv_result = "none"
    /\ mv_error = NoError
    /\ fallback_calls = 0
    /\ invocations = <<>>
    /\ progress = NoProgress
    /\ mp_clips = NoClips
    /\ WindowIdle
    /\ OracleIdle
    /\ auto_naming = TRUE
    /\ comp_title = <<>>
    /\ files_missing = {}
    /\ output_path = 0
    /\ w_pc = "merging"
    /\ \E n \in 1..MaxBatches : \E i \in 0..(n - 1) :
          /\ total_batches = n
          /\ index = i
    /\ generated_files = <<>>
    /\ is_cancelled = FALSE
    /\ merge_completed = 0
    /\ merge_failed = 0
    /\ merge_calls = <<>>
    /\ calls_after_cancel = 0
    /\ output_names = <<>>

\* lines 132-137: progress_callback is called with a sub-progress of 0..100
CallProgressCallback ==
    /\ \E prog \in 0..100 : progress' = progress_callback(progress, prog)
    /\ UNCHANGED <<planVars, jobVars, windowVars, oracleVars, mvFixed, mp_clips, mv_pc, temp_files, fs_temps,
                   fs_outputs, primary_error, mv_result, mv_error, fallback_calls,
                   invocations>>

ProgressSpec == ProgressInit /\ [][CallProgressCallback]_vars

\* C16. Progress aggregation: the value emitted while batch index (0-based) of
\* total_batches reports the sub-progress p equals
\* floor((100 * index + p) / total_batches); it lies in 0..100 and is 100
\* exactly when the last batch reports 100.
C16_OverallIsExactFloor ==
    progress.sub >= 0 =>
        /\ progress.last = (100 * index + progress.sub) \div total_batches
        /\ progress.last \in 0..100
        /\ progress.last = 100 <=> (index = total_batches - 1 /\ progress.sub = 100)

(* ================== further properties of merge_videos ================== *)
\* the invocations of a call that write its destination: the copy, the final
\* merge and the encode of the Fallback Engine
DestinationWrites ==
    SelectSeq(invocations, LAMBDA v : v.kind \in {"copy", "final", "fallback"})

\* what wrote the destination last; after a call that returned True, the
\* invocation whose result the destination holds ("copy": the bytes of the
\* source; "final", "fallback": an encoding)
DestinationWrittenBy ==
    IF DestinationWrites = <<>> THEN "none"
    ELSE DestinationWrites[Len(DestinationWrites)].kind

\* the invocations of the Block Merge Executor (_ffmpeg_merge_block) of a call
ExecutorInvocations ==
    SelectSeq(invocations, LAMBDA v : v.kind \in {"block", "final"})

BlockInvocations == SelectSeq(invocations, LAMBDA v : v.kind = "block")

FinalInvocations == SelectSeq(invocations, LAMBDA v : v.kind = "final")

\* C23. Fast copy: merge_videos on exactly one file returns True; when source
\* and destination differ the destination holds the bytes of the source, and
\* when they are the same file nothing on the filesystem is changed.
C23_FastCopy ==
    (MvReturned /\ Len(mv_files) = 1) =>
        /\ mv_result = "True"
        /\ IF mv_files[1] = mv_output
           THEN invocations = <<>> /\ fs_outputs = {} /\ fs_temps = {}
           ELSE DestinationWrittenBy = "copy" /\ mv_output \in fs_outputs

\* C29. A batch of exactly one file is handled by copy only: neither the Block
\* Merge Executor nor the Fallback Engine is invoked for it, also when the
\* copy fails.
C29_SingleFileCopyOnly ==
    Len(mv_files) = 1 =>
        \A k \in DOMAIN invocations :
            invocations[k].kind \notin {"block", "final", "fallback"}

\* C25. Every invocation of the Block Merge Executor made by merge_videos, the
\* merge of a sub-block and the final merge over the temp files alike,
\* receives at most block_size input files.
C25_ExecutorInputsBounded ==
    \A k \in DOMAIN ExecutorInvocations :
        Len(ExecutorInvocations[k].inputs) <= block_size

\* the least k with k * d >= n
CeilDiv(n, d) == CHOOSE k \in 0..n : k * d >= n /\ (k - 1) * d < n

\* the primary pipeline of a call with two or more files ran to its end
PrimarySucceeded ==
    /\ mv_pc \in {"finally", "returned"}
    /\ Len(mv_files) >= 2
    /\ mv_result = "True"
    /\ primary_error = NoError

\* C26. For a batch of n >= 2 files on a primary-path success, exactly
\* ceil(n / block_size) block merges ran, their inputs concatenated in order
\* are the batch, each wrote its own temp file (never the destination), and
\* exactly one final merge ran, after all of them, with the temp files in
\* block order as inputs and the destination as output.
C26_PrimarySuccessShape ==
    PrimarySucceeded =>
        /\ Len(BlockInvocations) = CeilDiv(Len(mv_files), block_size)
        /\ Flatten([k \in DOMAIN BlockInvocations |-> BlockInvocations[k].inputs])
               = mv_files
        /\ \A k \in DOMAIN BlockInvocations :
               BlockInvocations[k] = Invocation("block", BlockInvocations[k].inputs, k)
        /\ temp_files = [k \in DOMAIN BlockInvocations |-> k]
        /\ FinalInvocations = << Invocation("final", temp_files, mv_output) >>
        /\ invocations =
               << Invocation("toolcheck", <<>>, 0) >> \o BlockInvocations \o FinalInvocations

\* five files at block size 2 were merged by three block merges and the final
\* merge
C26_Witness ==
    /\ MvReturned
    /\ PrimarySucceeded
    /\ performance_level = 2
    /\ Len(mv_files) = 5
    /\ Len(BlockInvocations) = 3
    /\ mv_output \in fs_outputs

\* C27. The Block Merge Executor is invoked once per sub-block, in order, and
\* never again for the same sub-block; when the invocation of a block fails,
\* control is at the fallback decision (or past it), and from then on no block
\* merge and no final merge is invoked in the call.
C27_BlockFailureStopsPrimary ==
    /\ [](/\ \A k \in DOMAIN BlockInvocations : BlockInvocations[k].out = k
          /\ Len(BlockInvocations) <= total_blocks
          /\ primary_error = PrimaryError("block") =>
                /\ mv_pc \in {"except", "fallback", "finally", "returned"}
                /\ FinalInvocations = <<>>)
    /\ [][primary_error = PrimaryError("block")
             => ExecutorInvocations' = ExecutorInvocations]_vars

\* the second of three blocks failed: two block merges were invoked, no third
\* and no final merge
C27_Witness ==
    /\ MvReturned
    /\ primary_error = PrimaryError("block")
    /\ total_blocks = 3
    /\ Len(BlockInvocations) = 2
    /\ FinalInvocations = <<>>

\* C28. If the check that the external tool is reachable fails, no block merge
\* and no final merge is invoked, no temp file is created, and control is at
\* the fallback decision (or past it).
C28_ToolCheckFailureShortCircuits ==
    primary_error = PrimaryError("toolcheck") =>
        /\ ExecutorInvocations = <<>>
        /\ temp_files = <<>>
        /\ fs_temps = {}
        /\ mv_pc \in {"except", "fallback", "finally", "returned"}

\* the tool check of a call with two or more files failed and the Fallback
\* Engine merged them
C28_Witness ==
    /\ MvReturned
    /\ primary_error = PrimaryError("toolcheck")
    /\ Len(mv_files) >= 2
    /\ fallback_calls = 1
    /\ mv_result = "True"

(* -------------------- the Block Merge Executor's command ---------------- *)
\* line 46: self.potato_mode
potato_mode == performance_level > 0

\* lines 36 and 53: self.max_threads (0 means auto)
max_threads == IF performance_level >= 2 THEN 1 ELSE 0

\* lines 230 and 237: the preset merge_videos asks for
RequestedPreset(kind) == IF kind = "final" THEN "medium" ELSE "ultrafast"

\* mutant: the preset asked for is used at every level
final_preset_AsRequested(preset) == preset

\* line 295
final_preset(preset) == IF potato_mode THEN "ultrafast" ELSE preset

\* lines 298-309: the options of the ffmpeg command of an invocation; threads
\* is the value of -threads and max_muxing_queue_size that of
\* -max_muxing_queue_size, 0 when the option is not passed
ExecutorCommand(v) ==
    [preset |-> final_preset(RequestedPreset(v.kind)),
     threads |-> IF max_threads > 0 THEN max_threads ELSE 0,
     max_muxing_queue_size |-> IF performance_level >= 2 THEN 1024 ELSE 0]

\* C30 as stated. At performance level 1 or 2 every invocation of the Block
\* Merge Executor, block or final, uses the fastest preset whatever preset was
\* asked for, and has its thread count and its I/O queue size capped.
C30_ConstrainedCapsAll ==
    performance_level \in {1, 2} =>
        \A k \in DOMAIN ExecutorInvocations :
            /\ ExecutorCommand(ExecutorInvocations[k]).preset = "ultrafast"
            /\ ExecutorCommand(ExecutorInvocations[k]).threads > 0
            /\ ExecutorCommand(ExecutorInvocations[k]).max_muxing_queue_size > 0

\* C30 amended. At performance level 1 or 2 every invocation of the Block
\* Merge Executor, block or final, uses the fastest preset whatever preset was
\* asked for; at level 2 it is also run with one thread and a muxing queue
\* size of 1024; at level 1 neither option is passed, and at level 0 the
\* preset asked for is used.
C30_PresetForcedCapsAtLevel2 ==
    \A k \in DOMAIN ExecutorInvocations :
        LET cmd == ExecutorCommand(ExecutorInvocations[k])
        IN /\ performance_level >= 1 => cmd.preset = "ultrafast"
           /\ performance_level >= 2 =>
                 cmd.threads = 1 /\ cmd.max_muxing_queue_size = 1024
           /\ performance_level = 1 =>
                 cmd.threads = 0 /\ cmd.max_muxing_queue_size = 0
           /\ performance_level = 0 =>
                 cmd.preset = RequestedPreset(ExecutorInvocations[k].kind)

\* at level 1 a final merge, asked for at "medium", ran at "ultrafast" with no
\* thread or queue option
C30_Witness ==
    /\ MvReturned
    /\ performance_level = 1
    /\ PrimarySucceeded
    /\ ExecutorCommand(FinalInvocations[1]) =
           [preset |-> "ultrafast", threads |-> 0, max_muxing_queue_size |-> 0]

(* --------------------------- sequencing in a job ------------------------ *)
\* C24. Strict sequencing: the external invocations of a job are made one at
\* a time, each inside the running merge_videos call of the current batch;
\* the call for a batch starts only when the call for the batch before it has
\* returned, the worker goes on only when the call has returned, and the
\* blocks of a call are merged in order, block j + 1 after block j.
C24_StrictSequencing ==
    /\ [](\A k \in DOMAIN BlockInvocations :
              BlockInvocations[k].inputs = block_files(k))
    /\ [][/\ (invocations' # invocations /\ invocations' # <<>>) =>
                /\ w_pc = "merging"
                /\ mv_pc \notin {"idle", "returned"}
                /\ invocations' = Append(invocations, invocations'[Len(invocations')])
          /\ merge_calls' # merge_calls =>
                /\ mv_pc = "idle"
                /\ merge_calls = [j \in 1..index |-> j - 1]
                /\ merge_calls' = Append(merge_calls, index)
          /\ (w_pc = "merging" /\ w_pc' # "merging") => mv_pc = "returned"]_vars

\* at block size 2 the first batch, of three files, was merged in two blocks
\* and a final merge, then the second batch was copied, and the job completed
C24_Witness ==
    /\ JobDone
    /\ performance_level = 2
    /\ batches = << <<1, 2, 3>>, <<4>> >>
    /\ merge_calls = <<0, 1>>
    /\ DestinationWrittenBy = "copy"
    /\ merge_completed = 1

(* ------------------- clips of the Fallback Engine ----------------------- *)
\* C32. Fallback resource release: when the Fallback Engine has failed, at
\* whatever stage, every clip it has opened, the one being processed when the
\* failure occurred included, has been closed when the error propagates.
C32_OpenedClipsClosed ==
    (mv_pc \in {"finally", "returned"} /\ mv_result = "raised") =>
        mp_clips.opened \subseteq mp_clips.closed

(* ------------------ the last progress of a successful call -------------- *)
\* C37. Every merge_videos call that returns success has reported
\* sub-progress 100 as its last progress event, on each success path: fast
\* copy, same-file no-op, primary pipeline and fallback.
C37_SuccessEndsAt100 ==
    (MvReturned /\ mv_result = "True") => progress.sub = 100

(* --------------------- distinct destinations in a job ------------------- *)
\* C34. In a job of more than one batch the destinations of the batches are
\* pairwise distinct, with descriptive naming and with _partK naming: no batch
\* overwrites the output of an earlier batch.
C34_DistinctOutputs ==
    total_batches > 1 =>
        \A i, j \in DOMAIN output_names :
            i # j => output_names[i] # output_names[j]

\* with descriptive naming two batches that begin and end at the same listed
\* position (the same path listed twice) were both merged
C34_Witness ==
    /\ JobDone
    /\ total_batches > 1
    /\ auto_naming
    /\ Len(generated_files) = total_batches
    /\ \E i, j \in DOMAIN output_names :
          /\ i # j
          /\ output_names[i].start = output_names[j].start
          /\ output_names[i].end = output_names[j].end

(* ------------------- no completion of a cancelled job ------------------- *)
\* C35. Once the cancellation flag is set it stays set, and from then on
\* merge_completed is not emitted: a job whose flag was set before its last
\* batch's pipeline returned never emits merge_completed, even when every
\* batch that ran succeeded.
C35_NoCompletionAfterCancel ==
    [][is_cancelled => (is_cancelled' /\ merge_completed' = merge_completed)]_vars

\* the flag was set before the call for the last batch was entered, every
\* batch of the plan was merged, and the job returned without a signal
C35_Witness ==
    /\ JobDone
    /\ is_cancelled
    /\ calls_after_cancel = 1
    /\ total_batches >= 2
    /\ Len(generated_files) = total_batches
    /\ merge_completed = 0
    /\ merge_failed = 0

(* ------------------ completion means outputs were made ------------------ *)
\* C36. merge_completed is emitted only after every batch of the plan was
\* merged: the number of generated output files equals the number of planned
\* batches and is at least 1; a job never reports success having produced no
\* output.
C36_CompletedHasOutputs ==
    merge_completed >= 1 =>
        /\ Len(generated_files) = total_batches
        /\ Len(generated_files) >= 1

ProbeBehaviours == {"ok", "run_raises", "bad_output"}

\* what the other two strategies can do
StrategyBehaviours == {"ok", "raises"}

\* mutant: the internal library is tried at every level
LibraryAllowed_Always == TRUE

\* line 453: the internal library is tried below level 2 only
LibraryAllowed == performance_level < 2

\* get_video_info is entered
OracleCalled(exists, ffprobe, probe, parse, library) ==
    oracle = [path_exists |-> exists, ffprobe_exists |-> ffprobe, probe |-> probe,
              parse |-> parse, library |-> library, pc |-> "call",
              attempts |-> <<>>, error |-> "none", outcome |-> "none"]

\* line 430: a missing path raises FileNotFoundError, outside the try
GV_CheckPath ==
    /\ oracle.pc = "call"
    /\ oracle' = IF oracle.path_exists
                 THEN [oracle EXCEPT !.pc = "strategy"]
                 ELSE [oracle EXCEPT !.pc = "returned", !.outcome = "FileNotFound"]
    /\ UNCHANGED <<planVars, mergeVars, jobVars, windowVars>>

\* lines 436-449: ffprobe.exe is there: it is run and its output read
GV_Probe ==
    /\ oracle.pc = "strategy"
    /\ oracle.ffprobe_exists
    /\ oracle' = IF oracle.probe = "ok"
                 THEN [oracle EXCEPT !.attempts = Append(@, "probe"),
                                     !.pc = "returned", !.outcome = "info_probe"]
                 ELSE [oracle EXCEPT !.attempts = Append(@, "probe"),
                                     !.pc = "except", !.error = "probe"]
    /\ UNCHANGED <<planVars, mergeVars, jobVars, windowVars>>

\* lines 450-451 and 463-485: no ffprobe.exe: the output of ffmpeg -i is parsed
GV_Parse ==
    /\ oracle.pc = "strategy"
    /\ ~oracle.ffprobe_exists
    /\ oracle' = IF oracle.parse = "ok"
                 THEN [oracle EXCEPT !.attempts = Append(@, "parse"),
                                     !.pc = "returned", !.outcome = "info_parse"]
                 ELSE [oracle EXCEPT !.attempts = Append(@, "parse"),
                                     !.pc = "except", !.error = "parse"]
    /\ UNCHANGED <<planVars, mergeVars, jobVars, windowVars>>

\* lines 452-453 and 459-460: the except clause goes on to the internal
\* library or raises the exception it caught
GV_Except ==
    /\ oracle.pc = "except"
    /\ oracle' = IF LibraryAllowed
                 THEN [oracle EXCEPT !.pc = "library"]
                 ELSE [oracle EXCEPT !.pc = "returned",
                                     !.outcome = IF oracle.error = "probe"
                                                 THEN "raised_probe"
                                                 ELSE "raised_parse"]
    /\ UNCHANGED <<planVars, mergeVars, jobVars, windowVars>>

\* lines 454-458: the clip is opened with the internal library; its exception
\* is not caught
GV_Library ==
    /\ oracle.pc = "library"
    /\ oracle' = [oracle EXCEPT !.attempts = Append(@, "library"),
                                !.pc = "returned",
                                !.outcome = IF oracle.library = "ok"
                                            THEN "info_library"
                                            ELSE "raised_library"]
    /\ UNCHANGED <<planVars, mergeVars, jobVars, windowVars>>

OracleNext == GV_CheckPath \/ GV_Probe \/ GV_Parse \/ GV_Except \/ GV_Library

\* one call of get_video_info at each level, for every answer of the file
\* system and every behaviour of the strategies
OracleInit ==
    /\ PlanIdle
    /\ JobIdle
    /\ WindowIdle
    /\ performance_level \in {0, 1, 2}
    /\ mv_files = <<>>
    /\ mv_output = 0
    /\ mv_pc = "idle"
    /\ temp_files = <<>>
    /\ fs_temps = {}
    /\ fs_outputs = {}
    /\ primary_error = NoError
    /\ mv_result = "none"
    /\ mv_error = NoError
    /\ fallback_calls = 0
    /\ invocations = <<>>
    /\ progress = NoProgress
    /\ mp_clips = NoClips
    /\ \E exists \in BOOLEAN, ffprobe \in BOOLEAN, probe \in ProbeBehaviours,
          parse \in StrategyBehaviours, library \in StrategyBehaviours :
             OracleCalled(exists, ffprobe, probe, parse, library)

OracleSpec == OracleInit /\ [][OracleNext]_vars

\* C33. In the Duration Oracle the internal-library strategy is attempted
\* only after the strategy tried before it (the probe, or the parse of the
\* diagnostics when there is no probe tool) has raised, and only below the
\* most constrained level; at the most constrained level the failure of that
\* strategy is what the caller gets; and a missing path raises FileNotFound
\* before any external invocation.
C33_LibraryLastResort ==
    /\ oracle.pc = "library" =>
          /\ performance_level < 2
          /\ oracle.error \in {"probe", "parse"}
          /\ oracle.attempts = <<oracle.error>>
    /\ (\E k \in DOMAIN oracle.attempts : oracle.attempts[k] = "library") =>
          /\ performance_level < 2
          /\ oracle.attempts = <<oracle.error, "library">>
          /\ oracle.error \in {"probe", "parse"}
    /\ (oracle.pc = "returned" /\ performance_level >= 2 /\ oracle.error # "none") =>
          oracle.outcome = (IF oracle.error = "probe" THEN "raised_probe"
                            ELSE "raised_parse")
    /\ ~oracle.path_exists =>
          /\ oracle.attempts = <<>>
          /\ oracle.pc = "returned" => oracle.outcome = "FileNotFound"

\* below level 2 the probe's output could not be read and the internal
\* library gave the info
C33_Witness ==
    /\ oracle.pc = "returned"
    /\ performance_level = 1
    /\ oracle.attempts = <<"probe", "library">>
    /\ oracle.probe = "bad_output"
    /\ oracle.outcome = "info_library"

(* ==================== the split preview and the job ===================== *)
(* The window (main.py): ui holds the split settings (the check boxes, the   *)
(* mode button and the two spin boxes) and video_durations, the durations    *)
(* the window has cached for the listed files; preview is what               *)
(* update_split_preview announced: the parts and their members.              *)

\* the most files the window lists
PreviewFiles == 3

\* the durations of the listed files, in seconds
PreviewDurations == {20, 50, 90}

\* the values of the two spin boxes: minutes, and clips
SpinValues == {1, 2}

\* main.py lines 658 and 893: the threshold of Auto-Standalone
standalone_thresh == IF ui.standalone_cb THEN 60 ELSE 0

\* main.py lines 660-663: the limits update_split_preview plans with
preview_max_dur == IF ui.split_duration_btn THEN ui.duration_spin * 60 ELSE 0

preview_max_count == IF ui.split_duration_btn THEN 0 ELSE ui.count_spin

\* main.py lines 891-898: the limits start_merge_process gives the worker
job_max_dur ==
    IF ui.smart_split_cb /\ ui.split_duration_btn THEN ui.duration_spin * 60 ELSE 0

job_max_count ==
    IF ui.smart_split_cb /\ ~ui.split_duration_btn THEN ui.count_spin ELSE 0

\* main.py lines 651-653: Smart Split is off: "1 single part will be created"
PreviewDisabled ==
    /\ w_pc = "idle"
    /\ pc = "idle"
    /\ ~preview.shown
    /\ video_files # <<>>
    /\ ~ui.smart_split_cb
    /\ preview' = [shown |-> TRUE, parts |-> << video_files >>]
    /\ UNCHANGED <<planVars, mergeVars, jobVars, ui, oracleVars>>

\* main.py lines 655-671: Smart Split is on: calculate_batches is called with
\* the limits of the settings and the cached durations as the lookup
PreviewCall ==
    /\ w_pc = "idle"
    /\ pc = "idle"
    /\ ~preview.shown
    /\ video_files # <<>>
    /\ ui.smart_split_cb
    /\ max_duration_sec' = preview_max_dur
    /\ max_clip_count' = preview_max_count
    /\ standalone_threshold_sec' = standalone_thresh
    /\ cached_durations' = [supplied |-> TRUE, map |-> ui.video_durations]
    /\ pc' = "call"
    /\ UNCHANGED <<video_files, video_info, first_plan, idx, batches, current_batch,
                   current_duration, probe_calls, lookup_calls, handled>>
    /\ UNCHANGED <<mergeVars, jobVars, windowVars, oracleVars>>

\* main.py lines 678-679 and after: the durations are all cached, so the
\* batches of the plan are announced as the parts
PreviewShown ==
    /\ w_pc = "idle"
    /\ pc = "done"
    /\ ~preview.shown
    /\ preview' = [shown |-> TRUE, parts |-> batches]
    /\ pc' = "idle"
    /\ UNCHANGED <<inputVars, first_plan, idx, batches, current_batch, current_duration,
                   probe_calls, lookup_calls, handled>>
    /\ UNCHANGED <<mergeVars, jobVars, ui, oracleVars>>

\* main.py lines 887-909: the worker is made with the limits of the settings
\* (and no lookup) and started
start_merge_process ==
    /\ w_pc = "idle"
    /\ pc = "idle"
    /\ preview.shown
    /\ max_duration_sec' = job_max_dur
    /\ max_clip_count' = job_max_count
    /\ standalone_threshold_sec' = standalone_thresh
    /\ cached_durations' = [supplied |-> FALSE, map |-> <<>>]
    /\ idx' = 0
    /\ batches' = <<>>
    /\ current_batch' = <<>>
    /\ current_duration' = 0
    /\ probe_calls' = <<>>
    /\ lookup_calls' = <<>>
    /\ handled' = <<>>
    /\ w_pc' = "start"
    /\ UNCHANGED <<video_files, video_info, first_plan, pc>>
    /\ UNCHANGED <<mergeVars, jobFixed, windowVars, oracleVars, index, total_batches,
                   generated_files, is_cancelled, merge_completed, merge_failed,
                   merge_calls, calls_after_cancel, output_names>>

\* the window with its files listed (no path twice: main.py line 563), all
\* their durations cached, and the files still what they were when their
\* durations were read
PreviewInitWith(f, durs, settings) ==
    /\ video_files = f
    /\ max_duration_sec = 0
    /\ max_clip_count = 0
    /\ standalone_threshold_sec = 0
    /\ cached_durations = [supplied |-> FALSE, map |-> <<>>]
    /\ video_info = [p \in Range(f) |-> [ok |-> TRUE, duration |-> durs[p]]]
    /\ pc = "idle"
    /\ idx = 0
    /\ batches = <<>>
    /\ current_batch = <<>>
    /\ current_duration = 0
    /\ probe_calls = <<>>
    /\ lookup_calls = <<>>
    /\ handled = <<>>
    /\ first_plan = NoPlan
    /\ ui = [smart_split_cb |-> settings.smart_split_cb,
             split_duration_btn |-> settings.split_duration_btn,
             duration_spin |-> settings.duration_spin,
             count_spin |-> settings.count_spin,
             standalone_cb |-> settings.standalone_cb,
             video_durations |-> durs]
    /\ preview = [shown |-> FALSE, parts |-> <<>>]

PreviewInit ==
    /\ \E n \in 1..PreviewFiles :
          \E durs \in [1..n -> PreviewDurations] :
             \E smart \in BOOLEAN, mode \in BOOLEAN, standalone \in BOOLEAN,
                minutes \in SpinValues, clips \in SpinValues :
                   PreviewInitWith([k \in 1..n |-> k], durs,
                                   [smart_split_cb |-> smart, split_duration_btn |-> mode,
                                    duration_spin |-> minutes, count_spin |-> clips,
                                    standalone_cb |-> standalone])
    /\ MergeIdle
    /\ JobIdle
    /\ OracleIdle

\* the preview is shown, then the merge is started and the worker plans
PreviewNext ==
    \/ PreviewDisabled
    \/ PreviewCall
    \/ ReturnByCount
    \/ EnterLoop
    \/ LoopStep
    \/ ReturnPlan
    \/ PreviewShown
    \/ start_merge_process
    \/ W_Validate
    \/ W_CheckAfterValidate
    \/ W_Plan
    \/ W_Planned

PreviewSpec == PreviewInit /\ [][PreviewNext]_vars

\* C38. Preview/job agreement: for the same file list, settings (smart split
\* on or off, split mode and value, Auto-Standalone) and fully known
\* durations, the parts the split preview announced, their number and their
\* members, are the batches of the plan the job executes.
C38_PreviewMatchesJob ==
    (w_pc = "loop" /\ preview.shown) => batches = preview.parts

(* ------------------------------ termination ----------------------------- *)
\* C39. Termination: provided every external invocation eventually returns,
\* every job eventually stops, having emitted one terminal signal or having
\* returned on cancellation without one, and it starts at most one pipeline
\* per planned batch: the calls of merge_videos are for the batches 0, 1, ...
\* of the plan, each once.
C39_Terminates ==
    /\ <>JobDone
    /\ [](JobDone => \/ merge_completed + merge_failed = 1
                     \/ is_cancelled /\ merge_completed + merge_failed = 0)
    /\ [](\A k \in DOMAIN merge_calls :
              merge_calls[k] = k - 1 /\ (w_pc # "start" => k <= total_batches))

\* a job of three batches ran a pipeline for each of them, the fallback
\* among them, and stopped with merge_completed
C39_Witness ==
    /\ JobDone
    /\ total_batches = 3
    /\ merge_calls = <<0, 1, 2>>
    /\ merge_completed = 1
    /\ ~is_cancelled

====
